---------------------------- MODULE Spec2Model ----------------------------
(***************************************************************************)
(* The sales dashboard of tutorial.py: three SQL aggregations over the     *)
(* order facts, the two Dash callbacks (timeline, products) that reshape   *)
(* their rows into figures, the start-up sequence of the module and the    *)
(* dispatch of control changes to the callbacks.                           *)
(*                                                                         *)
(* Time.  A datetime is a whole number of days counted from local midnight *)
(* of 2004-12-31 (a Friday).  A POSIX timestamp is that instant in         *)
(* seconds.  The slider is moved between whole days only: a position       *)
(* inside a day selects the same rows as one of its two neighbours,        *)
(* because every dt of the store lies on a day boundary.                   *)
(*                                                                         *)
(* Rows.  The store gives no order to a result without ORDER BY, and none  *)
(* among the ties of an ORDER BY: every order the statement allows is a    *)
(* possible outcome, and each execution picks one.                         *)
(*                                                                         *)
(* Joins.  Every order fact has its date, its employee (hence a country)   *)
(* and its product, and a product code has one product name: the LEFT      *)
(* JOINs add no NULL, and GROUP BY product_code, product_name groups by    *)
(* product.  The store does not change while the dashboard runs.           *)
(*                                                                         *)
(* Processes.  run_server(debug=True) switches on the reloader: the        *)
(* process that is launched executes the module down to line 149 and there *)
(* starts a child, which executes the module again from the top and is the *)
(* one that serves.  A reload after an edit of the source file is outside  *)
(* the model: it starts one more child in the same way.                    *)
(*                                                                         *)
(* Dash.  The development server is threaded: the calls of the callbacks   *)
(* run side by side, each blocks while the store executes its statement,   *)
(* and nothing orders the statements or the answers of the requests in     *)
(* flight.  A call ends in its thread before the page receives the answer: *)
(* calls end in one order and their answers arrive in another.             *)
(* A callback that raises is answered with an error and the graph          *)
(* keeps the figure it had.  Whether the page applies the answer of a      *)
(* request that a later request of the same output has overtaken depends   *)
(* on the version of the renderer: it may apply it or drop it.  Of a       *)
(* figure the model keeps the series (type, name, x, y) and the layout;    *)
(* the slider marks of get_marks and the ids, mode and orientation of a    *)
(* series are left out.                                                    *)
(***************************************************************************)
EXTENDS Integers, Sequences, FiniteSets, TLC

VARIABLES
    proc,          \* the process executing the module: "launcher" or "server"
    pc,            \* where the module's top-level code stands in that process
    dbUp,          \* whether the store at postgres://postgres@0.0.0.0/analytics answers
    facts,         \* order_facts joined with dates, employees and products
    MIN_TIME,      \* global of line 61 (None until then, and when the store has no dt)
    MAX_TIME,      \* global of line 61
    sliderMin,     \* dcc.RangeSlider 'year-slider': min
    sliderMax,     \* dcc.RangeSlider 'year-slider': max
    sliderValue,   \* dcc.RangeSlider 'year-slider': value, <<start, finish>> timestamps
    boxes,         \* dcc.Checklist 'country-checkbox': value
    sentT,         \* requests for Output('timeline', 'figure') in flight
    sentP,         \* requests for Output('products', 'figure') in flight
    shownT,        \* dcc.Graph 'timeline': figure
    shownP,        \* dcc.Graph 'products': figure
    drawnT,        \* the arguments of the call whose figure 'timeline' shows
    drawnP,        \* the arguments of the call whose figure 'products' shows
    lastT,         \* the last call of timeline() that ended: arguments and outcome
    lastP,         \* the last call of products() that ended: arguments and outcome
    sqlLog,        \* number of executions of each SQL statement
    changes,       \* number of control changes so far
    rankN,         \* ranking study: the limit :n
    rankTable,     \* ranking study: the rows of the CTE t, with row_number
    rankRows       \* ranking study: the rows the statement returns

vars == <<proc, pc, dbUp, facts, MIN_TIME, MAX_TIME, sliderMin, sliderMax,
          sliderValue, boxes, sentT, sentP, shownT, shownP, drawnT, drawnP, lastT,
          lastP, sqlLog, changes, rankN, rankTable, rankRows>>

---------------------------------------------------------------------------
(* Bounds of the model *)

\* A store of the callback study holds at most MaxFacts order facts.
MaxFacts == 4

\* A store of the session study holds the sales of the first n session days,
\* for an n of at most MaxSessionFacts.
MaxSessionFacts == 3

\* A session makes at most MaxChanges control changes.
MaxChanges == 1

\* Ranking study: a (country, product) total is at most MaxTotal.
MaxTotal == 2

\* Countries, in the order pandas sorts its group keys (alphabetical).
CountryOrder == <<"France", "USA">>

\* Product names, in the order pandas sorts its group keys (alphabetical).
ProductOrder == <<"Ford", "Honda">>

\* Ranking study: more products than the limit of line 127.
RankProductOrder == <<"Alpine", "Ford", "Honda", "Mercedes">>

Range(s) == {s[i] : i \in DOMAIN s}

Countries == Range(CountryOrder)

Products == Range(ProductOrder)

\* The days of the stores: Fri 31 December 2004 (ISO week 53, year 2004),
\* Sat 1 and Sun 2 January 2005 (ISO week 53, year 2005), Mon 3 and Tue 4
\* January 2005 (ISO week 1, year 2005).
Days == {0, 1, 2, 3, 4}

\* The days of the stores of the session study.
SessionDays == {0, 1, 2}

\* The sales a store can hold: both countries sell Ford on every day, and the
\* USA sell Honda on day 2.
Sells(c, d, p) == p = ProductOrder[1] \/ (c = CountryOrder[2] /\ d = 2)

\* sales_amount of one order line of a product (one unit sold at the product's price).
Price(p) == IF p = "Honda" THEN 2 ELSE 1

---------------------------------------------------------------------------
(* Python values *)

None == <<>>

Some(x) == <<x>>

\* The value of a dcc.Checklist: None until the user first clicks, then the
\* list of the checked options.
BoxesNone == [none |-> TRUE, values |-> {}]

BoxesOf(vals) == [none |-> FALSE, values |-> vals]

BoxesValues == {BoxesNone, BoxesOf({}), BoxesOf({"by_country"})}

\* `boxes and 'by_country' in boxes`
by_country(b) == (~b.none) /\ b.values # {} /\ "by_country" \in b.values

SecondsPerDay == 24 * 60 * 60

\* datetime.timestamp()
timestamp(dt) == dt * SecondsPerDay

\* datetime.fromtimestamp(t)
fromtimestamp(t) == t \div SecondsPerDay

\* extract(year from dt): the calendar year, for days up to the end of 2005.
year_of(dt) == IF dt = 0 THEN 2004 ELSE 2005

\* extract(week from dt): the ISO week.  2004-12-31, 2005-01-01 and 2005-01-02
\* close ISO week 53 of 2004; week 1 starts on Monday 2005-01-03.
week_of(dt) == IF dt <= 2 THEN 53 ELSE ((dt - 3) \div 7) + 1

---------------------------------------------------------------------------
(* Sets, sequences, sums *)

RECURSIVE SumAmount(_)
SumAmount(S) ==
    IF S = {} THEN 0
    ELSE LET r == CHOOSE x \in S : TRUE
         IN  r.sales_amount + SumAmount(S \ {r})

MinDt(S) == CHOOSE d \in {r.dt : r \in S} : \A r \in S : d <= r.dt

MaxDt(S) == CHOOSE d \in {r.dt : r \in S} : \A r \in S : d >= r.dt

\* Every order in which a result set can arrive.
RECURSIVE Orderings(_)
Orderings(S) ==
    IF S = {} THEN {<<>>}
    ELSE UNION {{<<x>> \o p : p \in Orderings(S \ {x})} : x \in S}

\* ORDER BY sales_amount DESC: the orders that respect it.
DescOrderings(S) ==
    {p \in Orderings(S) :
        \A i \in 1..Len(p) : \A j \in 1..Len(p) :
            i < j => p[i].sales_amount >= p[j].sales_amount}

RECURSIVE SumSeq(_)
SumSeq(s) == IF s = <<>> THEN 0 ELSE Head(s).sales_amount + SumSeq(Tail(s))

Prefix(s, n) == SubSeq(s, 1, IF Len(s) < n THEN Len(s) ELSE n)

---------------------------------------------------------------------------
(* The SQL statements *)

\* select min(dt), max(dt) from order_facts left join dates on date_id=id
timerange_query(F) ==
    IF F = {} THEN [min |-> None, max |-> None]
    ELSE [min |-> Some(MinDt(F)), max |-> Some(MaxDt(F))]

\* timeseries_query: one row per (week, year, country), with the sum of the
\* group's sales and the earliest dt of the group.
timeseries_query(F) ==
    LET key(f) == <<week_of(f.dt), year_of(f.dt), f.country>>
        group(k) == {f \in F : key(f) = k}
    IN  {[sales_amount |-> SumAmount(group(k)),
          dt           |-> MinDt(group(k)),
          year         |-> k[2],
          week         |-> k[1],
          country      |-> k[3]] : k \in {key(f) : f \in F}}

\* in_window with the lower bound compared by >= (sales of the start date kept).
in_window_m(F, start, finish) == {f \in F : f.dt >= start /\ f.dt < finish}

\* WHERE dt > :start AND dt < :finish
in_window(F, start, finish) == {f \in F : f.dt > start /\ f.dt < finish}

\* top_products_query without its ORDER BY and LIMIT: one row per product.
products_total(F, start, finish) ==
    LET W == in_window(F, start, finish)
    IN  {[product_name |-> p,
          sales_amount |-> SumAmount({f \in W : f.product_name = p})]
            : p \in {f.product_name : f \in W}}

\* top_products_query: the results the statement can return.
top_products_query(F, start, finish, n) ==
    {Prefix(p, n) : p \in DescOrderings(products_total(F, start, finish))}

\* products_per_country: one row per (product, country).
products_per_country(F, start, finish) ==
    LET W == in_window(F, start, finish)
        key(f) == <<f.product_name, f.country>>
    IN  {[country      |-> k[2],
          product_name |-> k[1],
          sales_amount |-> SumAmount({f \in W : key(f) = k})]
            : k \in {key(f) : f \in W}}

\* ROW_NUMBER() OVER (PARTITION BY country ORDER BY sales_amount DESC): the
\* tables t the store can build, each row with its row_number.
ranked_tables(F, start, finish) ==
    LET P == products_per_country(F, start, finish)
        Cs == {r.country : r \in P}
        part(c) == {r \in P : r.country = c}
        all == UNION {DescOrderings(part(c)) : c \in Cs}
        choices == {ch \in [Cs -> all] : \A c \in Cs : ch[c] \in DescOrderings(part(c))}
    IN  {UNION {{[country      |-> c,
                  product_name |-> ch[c][i].product_name,
                  sales_amount |-> ch[c][i].sales_amount,
                  row_number   |-> i] : i \in 1..Len(ch[c])} : c \in Cs}
            : ch \in choices}

\* rank_filter with the limit compared by < (one row short per country).
rank_filter_m(t, n) ==
    {[country      |-> r.country,
      product_name |-> r.product_name,
      sales_amount |-> r.sales_amount] : r \in {x \in t : x.row_number < n}}

\* SELECT country, product_name, sales_amount FROM t WHERE row_number <= :n
rank_filter(t, n) ==
    {[country      |-> r.country,
      product_name |-> r.product_name,
      sales_amount |-> r.sales_amount] : r \in {x \in t : x.row_number <= n}}

\* top_products_by_country_query: the results the statement can return.
top_products_by_country_query(F, start, finish, n) ==
    UNION {Orderings(rank_filter(t, n)) : t \in ranked_tables(F, start, finish)}

---------------------------------------------------------------------------
(* The callbacks *)

\* n = 3 of line 127
ByCountryLimit == 3

\* n = 5 of line 137
OverallLimit == 5

\* figure = {} of lines 66 and 78
EmptyFigure == [data |-> <<>>, layout |-> [title |-> ""]]

Returned(fig) == [raised |-> "", figure |-> fig]

Raised(exc) == [raised |-> exc, figure |-> EmptyFigure]

KeyLess(a, b) == a[1] < b[1] \/ (a[1] = b[1] /\ a[2] < b[2])

\* The keys of a groupby, sorted as pandas sorts them.
RECURSIVE SortKeys(_)
SortKeys(S) ==
    IF S = {} THEN <<>>
    ELSE LET m == CHOOSE k \in S : \A o \in S : o = k \/ KeyLess(k, o)
         IN  <<m>> \o SortKeys(S \ {m})

\* window_rows with both bounds compared by >= and <= (a closed interval).
window_rows_m(dat, start, finish) ==
    LET keep(r) == r.dt >= start /\ r.dt <= finish
    IN  SelectSeq(dat, keep)

\* df[(df['dt'] > start) & (df['dt'] < finish)]
window_rows(dat, start, finish) ==
    LET keep(r) == r.dt > start /\ r.dt < finish
    IN  SelectSeq(dat, keep)

\* timeline_split without the groupby: one Scatter per row of df.
timeline_split_m(df) ==
    [k \in 1..Len(df) |->
        [type |-> "scatter",
         name |-> df[k].country,
         x    |-> <<df[k].dt>>,
         y    |-> <<df[k].sales_amount>>]]

\* The by-country branch of timeline(): one Scatter per country of df, in the
\* sorted order of df.groupby('country'); each holds the country's rows in df order.
timeline_split(df) ==
    LET has(c) == \E i \in DOMAIN df : df[i].country = c
        cs == SelectSeq(CountryOrder, has)
        rows(c) == LET of(r) == r.country = c IN SelectSeq(df, of)
    IN  [k \in 1..Len(cs) |->
            [type |-> "scatter",
             name |-> cs[k],
             x    |-> [i \in 1..Len(rows(cs[k])) |-> rows(cs[k])[i].dt],
             y    |-> [i \in 1..Len(rows(cs[k])) |-> rows(cs[k])[i].sales_amount]]]

\* timeline_total with 'sales_amount': 'first' in place of 'sum'.
timeline_total_m(df) ==
    LET ks == SortKeys({<<df[i].week, df[i].year>> : i \in DOMAIN df})
        rows(k) == LET of(r) == <<r.week, r.year>> = k IN SelectSeq(df, of)
    IN  << [type |-> "scatter",
            name |-> "",
            x    |-> [i \in 1..Len(ks) |-> Head(rows(ks[i])).dt],
            y    |-> [i \in 1..Len(ks) |-> Head(rows(ks[i])).sales_amount]] >>

\* The other branch: df.groupby(['week', 'year']).agg({'sales_amount': 'sum',
\* 'dt': 'first'}), one Scatter over the groups in sorted key order.
timeline_total(df) ==
    LET ks == SortKeys({<<df[i].week, df[i].year>> : i \in DOMAIN df})
        rows(k) == LET of(r) == <<r.week, r.year>> = k IN SelectSeq(df, of)
    IN  << [type |-> "scatter",
            name |-> "",
            x    |-> [i \in 1..Len(ks) |-> Head(rows(ks[i])).dt],
            y    |-> [i \in 1..Len(ks) |-> SumSeq(rows(ks[i]))]] >>

\* timeline(boxes, time_range) once the statement has returned the rows dat.
timeline_of(b, time_range, dat) ==
    LET start  == fromtimestamp(time_range[1])
        finish == fromtimestamp(time_range[2])
        df     == window_rows(dat, start, finish)
    IN  IF dat = <<>>
        THEN Raised("KeyError")      \* a frame of no rows has no column 'dt'
        ELSE Returned([data   |-> IF by_country(b) THEN timeline_split(df)
                                                   ELSE timeline_total(df),
                       layout |-> [title |-> "Sales Over Time"]])

\* timeline(boxes, time_range): every outcome of the call on the store F.
timeline(b, time_range, F) ==
    {timeline_of(b, time_range, dat) : dat \in Orderings(timeseries_query(F))}

products_layout ==
    [title |-> "Most Profitable Products", automargin |-> TRUE, barmode |-> "stack"]

\* The by-country branch of products(): one Bar per product name of the rows,
\* in the sorted order of df.groupby('product_name').
products_split(res) ==
    LET has(p) == \E i \in DOMAIN res : res[i].product_name = p
        ps == SelectSeq(ProductOrder, has)
        rows(p) == LET of(r) == r.product_name = p IN SelectSeq(res, of)
    IN  IF res = <<>>
        THEN Raised("KeyError")      \* a frame of no rows has no column 'product_name'
        ELSE Returned(
               [data |-> [k \in 1..Len(ps) |->
                    [type |-> "bar",
                     name |-> ps[k],
                     x    |-> [i \in 1..Len(rows(ps[k])) |-> rows(ps[k])[i].sales_amount],
                     y    |-> [i \in 1..Len(rows(ps[k])) |-> rows(ps[k])[i].country]]],
                layout |-> products_layout])

\* The other branch of products(): one Bar over the rows.
products_total_bar(res) ==
    IF res = <<>>
    THEN Raised("AttributeError")    \* a frame of no rows has no attribute 'sales_amount'
    ELSE Returned(
           [data |-> << [type |-> "bar",
                         name |-> "",
                         x    |-> [i \in 1..Len(res) |-> res[i].sales_amount],
                         y    |-> [i \in 1..Len(res) |-> res[i].product_name]] >>,
            layout |-> products_layout])

\* products(boxes, time_range): every outcome of the call on the store F.
products(b, time_range, F) ==
    LET start  == fromtimestamp(time_range[1])
        finish == fromtimestamp(time_range[2])
    IN  IF by_country(b)
        THEN {products_split(res) :
                res \in top_products_by_country_query(F, start, finish, ByCountryLimit)}
        ELSE {products_total_bar(res) :
                res \in top_products_query(F, start, finish, OverallLimit)}

---------------------------------------------------------------------------
(* Stores *)

AllFacts ==
    {[country |-> x[1], dt |-> x[2], product_name |-> x[3], sales_amount |-> Price(x[3])]
        : x \in {y \in Countries \X Days \X Products : Sells(y[1], y[2], y[3])}}

\* The sales a store of the session study can hold: those of the first
\* country on the first three days.
SessionFacts == {f \in AllFacts : f.country = CountryOrder[1] /\ f.dt \in SessionDays}

Stores(A, max) == {F \in SUBSET A : Cardinality(F) <= max}

\* The stores of the session study: one sale a day since the first day.
SessionStores(max) == {{f \in SessionFacts : f.dt < n} : n \in 0..max}

\* No call of a callback has ended yet.
NoCall == [args |-> None, raised |-> "", figure |-> EmptyFigure]

NoSql == [timerange |-> 0, timeseries |-> 0, top_products |-> 0,
          top_products_by_country |-> 0]

\* The arguments Dash passes to a callback: the values of its two Inputs.
Args(b, v) == [boxes |-> b, time_range |-> v]

\* A request for one output: n is the number of the control change that sent
\* it (0 for the page load); done says that the store has executed the
\* statement of the call, out is what the call then answers, and ended says
\* that the call has returned or raised.  The request stays in flight until
\* the page receives the answer.
Request(n, b, v) ==
    [seq |-> n, boxes |-> b, time_range |-> v, done |-> FALSE,
     out |-> Returned(EmptyFigure), ended |-> FALSE]

Remove(s, i) == SubSeq(s, 1, i - 1) \o SubSeq(s, i + 1, Len(s))

---------------------------------------------------------------------------
(* The module's top-level code and the dispatch of the callbacks *)

Init ==
    /\ proc = "launcher"
    /\ pc = "import"
    /\ dbUp \in BOOLEAN
    /\ facts \in SessionStores(MaxSessionFacts)
    /\ MIN_TIME = None /\ MAX_TIME = None
    /\ sliderMin = None /\ sliderMax = None /\ sliderValue = None
    /\ boxes = BoxesNone
    /\ sentT = <<>> /\ sentP = <<>>
    /\ shownT = EmptyFigure /\ shownP = EmptyFigure
    /\ drawnT = None /\ drawnP = None
    /\ lastT = NoCall /\ lastP = NoCall
    /\ sqlLog = NoSql
    /\ changes = 0
    /\ rankN = 0 /\ rankTable = {} /\ rankRows = {}

\* Line 45: records.Database(...).  Some versions of the library connect here
\* and raise when the store is down, others connect on the first query.
Connect ==
    /\ pc = "import"
    /\ \/ pc' = "connected"
       \/ ~dbUp /\ pc' = "crashed"
    /\ UNCHANGED <<proc, dbUp, facts, MIN_TIME, MAX_TIME, sliderMin, sliderMax,
                   sliderValue, boxes, sentT, sentP, shownT, shownP, drawnT, drawnP,
                   lastT, lastP, sqlLog, changes, rankN, rankTable, rankRows>>

\* Lines 48-51 and 61: MIN_TIME, MAX_TIME = get_data_timerange()
get_data_timerange ==
    /\ pc = "connected"
    /\ IF dbUp
       THEN /\ pc' = "timerange"
            /\ MIN_TIME' = timerange_query(facts).min
            /\ MAX_TIME' = timerange_query(facts).max
            /\ sqlLog' = [sqlLog EXCEPT !.timerange = @ + 1]
       ELSE /\ pc' = "crashed"
            /\ UNCHANGED <<MIN_TIME, MAX_TIME, sqlLog>>
    /\ UNCHANGED <<proc, dbUp, facts, sliderMin, sliderMax, sliderValue, boxes, sentT,
                   sentP, shownT, shownP, drawnT, drawnP, lastT, lastP, changes, rankN,
                   rankTable, rankRows>>

\* layout with a fallback range in place of the AttributeError on None.
layout_m ==
    /\ pc = "timerange"
    /\ pc' = "layout"
    /\ sliderMin' = Some(IF MIN_TIME = None THEN 0 ELSE timestamp(MIN_TIME[1]))
    /\ sliderMax' = Some(IF MAX_TIME = None THEN 0 ELSE timestamp(MAX_TIME[1]))
    /\ sliderValue' = <<sliderMin'[1], sliderMax'[1]>>
    /\ UNCHANGED <<proc, dbUp, facts, MIN_TIME, MAX_TIME, boxes, sentT, sentP, shownT,
                   shownP, drawnT, drawnP, lastT, lastP, sqlLog, changes, rankN,
                   rankTable, rankRows>>

\* Lines 63-79: app.layout.  MIN_TIME.timestamp() raises on None.
layout ==
    /\ pc = "timerange"
    /\ IF MIN_TIME = None \/ MAX_TIME = None
       THEN /\ pc' = "crashed"
            /\ UNCHANGED <<sliderMin, sliderMax, sliderValue>>
       ELSE /\ pc' = "layout"
            /\ sliderMin' = Some(timestamp(MIN_TIME[1]))
            /\ sliderMax' = Some(timestamp(MAX_TIME[1]))
            /\ sliderValue' = <<timestamp(MIN_TIME[1]), timestamp(MAX_TIME[1])>>
    /\ UNCHANGED <<proc, dbUp, facts, MIN_TIME, MAX_TIME, boxes, sentT, sentP, shownT,
                   shownP, drawnT, drawnP, lastT, lastP, sqlLog, changes, rankN,
                   rankTable, rankRows>>

\* Line 149: app.run_server(debug=True).  With the reloader of debug mode the
\* launched process does not serve: it starts a child that executes the
\* module again from line 1, with globals of its own, and the child serves.
\* The store may have gone down, or come back, by the time the child connects.
run_server ==
    /\ pc = "layout"
    /\ IF proc = "launcher"
       THEN /\ proc' = "server"
            /\ pc' = "import"
            /\ dbUp' \in BOOLEAN
            /\ MIN_TIME' = None /\ MAX_TIME' = None
            /\ sliderMin' = None /\ sliderMax' = None /\ sliderValue' = None
       ELSE /\ pc' = "serving"
            /\ UNCHANGED <<proc, dbUp, MIN_TIME, MAX_TIME, sliderMin, sliderMax,
                           sliderValue>>
    /\ UNCHANGED <<facts, boxes, sentT, sentP, shownT, shownP, drawnT, drawnP, lastT,
                   lastP, sqlLog, changes, rankN, rankTable, rankRows>>

\* The page is loaded: Dash calls every callback once with the layout's values.
PageLoad ==
    /\ pc = "serving"
    /\ pc' = "loaded"
    /\ sentT' = Append(sentT, Request(0, boxes, sliderValue))
    /\ sentP' = Append(sentP, Request(0, boxes, sliderValue))
    /\ UNCHANGED <<proc, dbUp, facts, MIN_TIME, MAX_TIME, sliderMin, sliderMax,
                   sliderValue, boxes, shownT, shownP, drawnT, drawnP, lastT, lastP,
                   sqlLog, changes, rankN, rankTable, rankRows>>

\* Dispatch with the products callback wired to no Input.
Dispatch_m(n, b, v) ==
    /\ sentT' = Append(sentT, Request(n, b, v))
    /\ sentP' = sentP

\* Lines 82-86 and 118-122: both callbacks list both controls as Input, so a
\* change of either control requests both figures with the new values.
Dispatch(n, b, v) ==
    /\ sentT' = Append(sentT, Request(n, b, v))
    /\ sentP' = Append(sentP, Request(n, b, v))

\* The user clicks the 'By Country' option.
ToggleCheckbox ==
    /\ pc = "loaded"
    /\ changes < MaxChanges
    /\ changes' = changes + 1
    /\ boxes' = IF by_country(boxes) THEN BoxesOf({}) ELSE BoxesOf({"by_country"})
    /\ Dispatch(changes', boxes', sliderValue)
    /\ UNCHANGED <<proc, pc, dbUp, facts, MIN_TIME, MAX_TIME, sliderMin, sliderMax,
                   sliderValue, shownT, shownP, drawnT, drawnP, lastT, lastP, sqlLog,
                   rankN, rankTable, rankRows>>

\* The user drags one handle of the range slider; the handles may meet but
\* the value stays ordered.
MoveSlider ==
    /\ pc = "loaded"
    /\ changes < MaxChanges
    /\ changes' = changes + 1
    /\ \E d \in Days :
         /\ timestamp(d) >= sliderMin[1] /\ timestamp(d) <= sliderMax[1]
         /\ \/ timestamp(d) <= sliderValue[2] /\ sliderValue' = <<timestamp(d), sliderValue[2]>>
            \/ timestamp(d) >= sliderValue[1] /\ sliderValue' = <<sliderValue[1], timestamp(d)>>
         /\ sliderValue' # sliderValue
    /\ Dispatch(changes', boxes, sliderValue')
    /\ UNCHANGED <<proc, pc, dbUp, facts, MIN_TIME, MAX_TIME, sliderMin, sliderMax,
                   boxes, shownT, shownP, drawnT, drawnP, lastT, lastP, sqlLog, rankN,
                   rankTable, rankRows>>

\* Lines 87-89: a server thread runs timeline() for one of the requests in
\* flight, whichever, and the store executes its statement; the rows it
\* hands back decide what lines 91-116 will answer.
TimelineCallback ==
    /\ pc = "loaded"
    /\ \E i \in DOMAIN sentT :
         /\ ~sentT[i].done
         /\ \E out \in timeline(sentT[i].boxes, sentT[i].time_range, facts) :
              sentT' = [sentT EXCEPT ![i].done = TRUE, ![i].out = out]
    /\ sqlLog' = [sqlLog EXCEPT !.timeseries = @ + 1]
    /\ UNCHANGED <<proc, pc, dbUp, facts, MIN_TIME, MAX_TIME, sliderMin, sliderMax,
                   sliderValue, boxes, sentP, shownT, shownP, drawnT, drawnP, lastT,
                   lastP, changes, rankN, rankTable, rankRows>>

\* Lines 91-116: a call of timeline() whose statement has been executed
\* returns its figure, or raises, in its server thread.
TimelineReturn ==
    /\ pc = "loaded"
    /\ \E i \in DOMAIN sentT :
         LET r == sentT[i]
         IN  /\ r.done /\ ~r.ended
             /\ sentT' = [sentT EXCEPT ![i].ended = TRUE]
             /\ lastT' = [args   |-> Some(Args(r.boxes, r.time_range)),
                          raised |-> r.out.raised,
                          figure |-> r.out.figure]
    /\ UNCHANGED <<proc, pc, dbUp, facts, MIN_TIME, MAX_TIME, sliderMin, sliderMax,
                   sliderValue, boxes, sentP, shownT, shownP, drawnT, drawnP, lastP,
                   sqlLog, changes, rankN, rankTable, rankRows>>

\* Lines 82-86, Output('timeline', 'figure'): the page receives the answer of a
\* call that has ended.  A figure replaces the one shown; an error leaves it;
\* the figure of a request that a control change has overtaken is applied or
\* dropped.
TimelineAnswer ==
    /\ pc = "loaded"
    /\ \E i \in DOMAIN sentT :
         LET r == sentT[i]
         IN  /\ r.ended
             /\ sentT' = Remove(sentT, i)
             /\ \/ /\ r.out.raised = ""
                   /\ shownT' = r.out.figure
                   /\ drawnT' = Some(Args(r.boxes, r.time_range))
                \/ /\ r.out.raised # "" \/ r.seq < changes
                   /\ UNCHANGED <<shownT, drawnT>>
    /\ UNCHANGED <<proc, pc, dbUp, facts, MIN_TIME, MAX_TIME, sliderMin, sliderMax,
                   sliderValue, boxes, sentP, shownP, drawnP, lastT, lastP, sqlLog,
                   changes, rankN, rankTable, rankRows>>

\* Lines 123-127 and 137: a server thread runs products() for one of the
\* requests in flight, whichever, and the store executes the statement of
\* its branch.
ProductsCallback ==
    /\ pc = "loaded"
    /\ \E i \in DOMAIN sentP :
         /\ ~sentP[i].done
         /\ \E out \in products(sentP[i].boxes, sentP[i].time_range, facts) :
              sentP' = [sentP EXCEPT ![i].done = TRUE, ![i].out = out]
         /\ sqlLog' = IF by_country(sentP[i].boxes)
                      THEN [sqlLog EXCEPT !.top_products_by_country = @ + 1]
                      ELSE [sqlLog EXCEPT !.top_products = @ + 1]
    /\ UNCHANGED <<proc, pc, dbUp, facts, MIN_TIME, MAX_TIME, sliderMin, sliderMax,
                   sliderValue, boxes, sentT, shownT, shownP, drawnT, drawnP, lastT,
                   lastP, changes, rankN, rankTable, rankRows>>

\* Lines 129-147: a call of products() whose statement has been executed
\* returns its figure, or raises, in its server thread.
ProductsReturn ==
    /\ pc = "loaded"
    /\ \E i \in DOMAIN sentP :
         LET r == sentP[i]
         IN  /\ r.done /\ ~r.ended
             /\ sentP' = [sentP EXCEPT ![i].ended = TRUE]
             /\ lastP' = [args   |-> Some(Args(r.boxes, r.time_range)),
                          raised |-> r.out.raised,
                          figure |-> r.out.figure]
    /\ UNCHANGED <<proc, pc, dbUp, facts, MIN_TIME, MAX_TIME, sliderMin, sliderMax,
                   sliderValue, boxes, sentT, shownT, shownP, drawnT, drawnP, lastT,
                   sqlLog, changes, rankN, rankTable, rankRows>>

\* Lines 118-122, Output('products', 'figure'): the page receives the answer of a
\* call that has ended.  A figure replaces the one shown; an error leaves it;
\* the figure of a request that a control change has overtaken is applied or
\* dropped.
ProductsAnswer ==
    /\ pc = "loaded"
    /\ \E i \in DOMAIN sentP :
         LET r == sentP[i]
         IN  /\ r.ended
             /\ sentP' = Remove(sentP, i)
             /\ \/ /\ r.out.raised = ""
                   /\ shownP' = r.out.figure
                   /\ drawnP' = Some(Args(r.boxes, r.time_range))
                \/ /\ r.out.raised # "" \/ r.seq < changes
                   /\ UNCHANGED <<shownP, drawnP>>
    /\ UNCHANGED <<proc, pc, dbUp, facts, MIN_TIME, MAX_TIME, sliderMin, sliderMax,
                   sliderValue, boxes, sentT, shownT, drawnT, lastT, lastP, sqlLog,
                   changes, rankN, rankTable, rankRows>>

Next ==
    \/ Connect
    \/ get_data_timerange
    \/ layout
    \/ run_server
    \/ PageLoad
    \/ ToggleCheckbox
    \/ MoveSlider
    \/ TimelineCallback
    \/ TimelineReturn
    \/ TimelineAnswer
    \/ ProductsCallback
    \/ ProductsReturn
    \/ ProductsAnswer

Spec == Init /\ [][Next]_vars

---------------------------------------------------------------------------
(* Callback study: the two callbacks applied to every request the controls *)
(* can send, on every store of the bound.                                  *)

InitCallbacks ==
    /\ proc = "server"
    /\ pc = "loaded"
    /\ dbUp = TRUE
    /\ facts \in Stores(AllFacts, MaxFacts) \ {{}}
    /\ MIN_TIME = timerange_query(facts).min
    /\ MAX_TIME = timerange_query(facts).max
    /\ sliderMin = Some(timestamp(MIN_TIME[1]))
    /\ sliderMax = Some(timestamp(MAX_TIME[1]))
    /\ \E s \in Days : \E f \in Days :
         /\ MIN_TIME[1] <= s /\ s <= f /\ f <= MAX_TIME[1]
         /\ sliderValue = <<timestamp(s), timestamp(f)>>
    /\ boxes \in BoxesValues
    /\ sentT = <<Request(0, boxes, sliderValue)>>
    /\ sentP = <<Request(0, boxes, sliderValue)>>
    /\ shownT = EmptyFigure /\ shownP = EmptyFigure
    /\ drawnT = None /\ drawnP = None
    /\ lastT = NoCall /\ lastP = NoCall
    /\ sqlLog = [NoSql EXCEPT !.timerange = 2]
    /\ changes = 0
    /\ rankN = 0 /\ rankTable = {} /\ rankRows = {}

NextCallbacks ==
    \/ TimelineCallback
    \/ TimelineReturn
    \/ TimelineAnswer
    \/ ProductsCallback
    \/ ProductsReturn
    \/ ProductsAnswer

SpecCallbacks == InitCallbacks /\ [][NextCallbacks]_vars

---------------------------------------------------------------------------
(* Ranking study: top_products_by_country_query for every limit up to the  *)
(* one of line 127, on stores with more products than the limit.           *)

RankProducts == Range(RankProductOrder)

\* The (country, product) pairs that sell inside the window of the study.
RankCells ==
    {<<CountryOrder[1], p>> : p \in RankProducts}
        \cup {<<CountryOrder[2], RankProductOrder[i]>> : i \in 1..2}

Fact(c, d, p, a) == [country |-> c, dt |-> d, product_name |-> p, sales_amount |-> a]

\* The sales of day 1 as the totals say, and one sale on each of days 0 and 2.
RankStore(total) ==
    {Fact(cell[1], 1, cell[2], total[cell]) : cell \in {x \in RankCells : total[x] > 0}}
        \cup {Fact(CountryOrder[1], 0, RankProductOrder[1], MaxTotal),
              Fact(CountryOrder[2], 2, RankProductOrder[2], MaxTotal)}

InitRank ==
    /\ proc = "server"
    /\ pc = "ranking"
    /\ dbUp = TRUE
    /\ \E total \in [RankCells -> 0..MaxTotal] : facts = RankStore(total)
    /\ MIN_TIME = Some(0) /\ MAX_TIME = Some(2)
    /\ sliderMin = Some(timestamp(0)) /\ sliderMax = Some(timestamp(2))
    /\ sliderValue = <<timestamp(0), timestamp(2)>>
    /\ boxes = BoxesOf({"by_country"})
    /\ sentT = <<>> /\ sentP = <<>>
    /\ shownT = EmptyFigure /\ shownP = EmptyFigure
    /\ drawnT = None /\ drawnP = None
    /\ lastT = NoCall /\ lastP = NoCall
    /\ sqlLog = [NoSql EXCEPT !.timerange = 2]
    /\ changes = 0
    /\ rankN \in 1..ByCountryLimit
    /\ rankTable = {} /\ rankRows = {}

\* One execution of top_products_by_country_query with :n = rankN.
RankQuery ==
    /\ pc = "ranking"
    /\ pc' = "ranked"
    /\ \E t \in ranked_tables(facts, fromtimestamp(sliderValue[1]),
                              fromtimestamp(sliderValue[2])) :
         /\ rankTable' = t
         /\ rankRows' = rank_filter(t, rankN)
    /\ sqlLog' = [sqlLog EXCEPT !.top_products_by_country = @ + 1]
    /\ UNCHANGED <<proc, dbUp, facts, MIN_TIME, MAX_TIME, sliderMin, sliderMax,
                   sliderValue, boxes, sentT, sentP, shownT, shownP, drawnT, drawnP,
                   lastT, lastP, changes, rankN>>

NextRank == RankQuery

SpecRank == InitRank /\ [][NextRank]_vars

---------------------------------------------------------------------------
(* Properties *)

\* The points of one series, as (x, y) pairs.
TracePoints(tr) == {<<tr.x[i], tr.y[i]>> : i \in DOMAIN tr.x}

\* The positions of the points of a figure: (series, index in the series).
PointIds(fig) == UNION {{<<k, i>> : i \in DOMAIN fig.data[k].x} : k \in DOMAIN fig.data}

NumPoints(fig) == Cardinality(PointIds(fig))

\* The (week, year) period of a date.
Period(dt) == <<week_of(dt), year_of(dt)>>

\* dt lies strictly between the two timestamps of the slider value v.
StrictlyInside(dt, v) == v[1] < timestamp(dt) /\ timestamp(dt) < v[2]

\* The slider value the layout starts with.
InitialRange == <<sliderMin[1], sliderMax[1]>>

\* The page is loaded and no request is in flight.
Settled == pc = "loaded" /\ sentT = <<>> /\ sentP = <<>>

\* The requests in flight whose statement the store has not yet executed.
Waiting(s) == Cardinality({i \in DOMAIN s : ~s[i].done})

\* C1 (as claimed): a request whose window has start >= finish makes each
\* callback return, without raising, a figure of zero data points.
C1_EmptyWindowRendersEmpty ==
    /\ (lastT.args # None /\ lastT.args[1].time_range[1] >= lastT.args[1].time_range[2])
          => (lastT.raised = "" /\ NumPoints(lastT.figure) = 0)
    /\ (lastP.args # None /\ lastP.args[1].time_range[1] >= lastP.args[1].time_range[2])
          => (lastP.raised = "" /\ NumPoints(lastP.figure) = 0)

\* C2: for a window with start <= finish, every point of the timeline figure
\* is a time-series row dated strictly inside the window (by country), or the
\* sum of the rows of one period that are dated strictly inside it (in total):
\* a row dated at or before start, or at or after finish, gives no point and
\* enters no sum.
C2_TimelineInsideWindow ==
    (lastT.args # None /\ lastT.raised = ""
        /\ lastT.args[1].time_range[1] <= lastT.args[1].time_range[2])
    => LET req == lastT.args[1]
           TS  == timeseries_query(facts)
           inside == {r \in TS : StrictlyInside(r.dt, req.time_range)}
       IN  IF by_country(req.boxes)
           THEN \A id \in PointIds(lastT.figure) :
                  \E r \in inside :
                     /\ r.country = lastT.figure.data[id[1]].name
                     /\ r.dt = lastT.figure.data[id[1]].x[id[2]]
                     /\ r.sales_amount = lastT.figure.data[id[1]].y[id[2]]
           ELSE \A id \in PointIds(lastT.figure) :
                  LET x == lastT.figure.data[id[1]].x[id[2]]
                      y == lastT.figure.data[id[1]].y[id[2]]
                      R == {r \in inside : <<r.week, r.year>> = Period(x)}
                  IN  x \in {r.dt : r \in R} /\ y = SumAmount(R)

\* C2 happens: a drawn timeline with a point, and a row dated exactly at start.
C2_Witness ==
    /\ lastT.args # None /\ lastT.raised = ""
    /\ lastT.args[1].time_range[1] < lastT.args[1].time_range[2]
    /\ NumPoints(lastT.figure) >= 1
    /\ \E r \in timeseries_query(facts) : timestamp(r.dt) = lastT.args[1].time_range[1]
    /\ \E r \in timeseries_query(facts) : timestamp(r.dt) = lastT.args[1].time_range[2]

\* What a call of a request in flight leaves as the last call that ended.
Ended(r) ==
    [args |-> Some(Args(r.boxes, r.time_range)), raised |-> r.out.raised,
     figure |-> r.out.figure]

\* C3: every change of a control sends one request for each figure with the
\* new values; the statement of a request is executed by the call of that
\* request, once, and the call ends with what it made of the rows of that
\* execution and the request's values; the page is answered with the outcome
\* of the request's own call; so the store has executed, for each callback,
\* one statement per request sent (one per change and one for the page load)
\* less those still waiting, and no answer comes from an earlier result.
C3_ChangeRunsBothQueries ==
    /\ [][(pc = "loaded" /\ (boxes' # boxes \/ sliderValue' # sliderValue))
            => /\ changes' = changes + 1
               /\ sentT' = Append(sentT, Request(changes', boxes', sliderValue'))
               /\ sentP' = Append(sentP, Request(changes', boxes', sliderValue'))]_vars
    /\ [][(Len(sentT') >= Len(sentT))
            => \A i \in DOMAIN sentT :
                 IF ~sentT[i].done /\ sentT'[i].done
                 THEN /\ sqlLog'.timeseries = sqlLog.timeseries + 1
                      /\ sentT'[i].out
                            \in timeline(sentT[i].boxes, sentT[i].time_range, facts)
                 ELSE IF ~sentT[i].ended /\ sentT'[i].ended
                 THEN /\ sentT[i].done
                      /\ sentT'[i].out = sentT[i].out
                      /\ lastT' = Ended(sentT[i])
                 ELSE sentT'[i] = sentT[i]]_vars
    /\ [][(Len(sentP') >= Len(sentP))
            => \A i \in DOMAIN sentP :
                 IF ~sentP[i].done /\ sentP'[i].done
                 THEN /\ IF by_country(sentP[i].boxes)
                         THEN sqlLog'.top_products_by_country
                                 = sqlLog.top_products_by_country + 1
                         ELSE sqlLog'.top_products = sqlLog.top_products + 1
                      /\ sentP'[i].out
                            \in products(sentP[i].boxes, sentP[i].time_range, facts)
                 ELSE IF ~sentP[i].ended /\ sentP'[i].ended
                 THEN /\ sentP[i].done
                      /\ sentP'[i].out = sentP[i].out
                      /\ lastP' = Ended(sentP[i])
                 ELSE sentP'[i] = sentP[i]]_vars
    /\ [][(Len(sentT') < Len(sentT))
            => \E i \in DOMAIN sentT :
                 /\ sentT[i].ended
                 /\ sentT' = Remove(sentT, i)
                 /\ shownT' \in {shownT, sentT[i].out.figure}]_vars
    /\ [][(Len(sentP') < Len(sentP))
            => \E i \in DOMAIN sentP :
                 /\ sentP[i].ended
                 /\ sentP' = Remove(sentP, i)
                 /\ shownP' \in {shownP, sentP[i].out.figure}]_vars
    /\ [](pc = "loaded" =>
            /\ sqlLog.timeseries = changes + 1 - Waiting(sentT)
            /\ sqlLog.top_products + sqlLog.top_products_by_country
                  = changes + 1 - Waiting(sentP))

\* C3 happens: the checkbox was changed, and every request has been answered.
C3_Witness ==
    /\ Settled
    /\ changes >= 1
    /\ sqlLog.timeseries = changes + 1
    /\ sqlLog.top_products >= 1 /\ sqlLog.top_products_by_country >= 1

\* C4: in the table t of top_products_by_country_query the row numbers of a
\* country are 1..k, k its number of products sold in the window, each row
\* holds the product's total of the window, totals do not increase with the
\* row number; the statement returns for the country exactly the rows numbered
\* up to n: at most n rows, none with a smaller total than a row left out.
C4_RanksContiguousTopN ==
    pc = "ranked" =>
      LET W  == {f \in facts : StrictlyInside(f.dt, sliderValue)}
          Cs == {f.country : f \in W}
          strip(r) == [country |-> r.country, product_name |-> r.product_name,
                       sales_amount |-> r.sales_amount]
      IN  /\ {r.country : r \in rankTable} = Cs
          /\ {r.country : r \in rankRows} = Cs
          /\ \A c \in Cs :
               LET part == {r \in rankTable : r.country = c}
                   k    == Cardinality({f.product_name : f \in {g \in W : g.country = c}})
                   got  == {r \in rankRows : r.country = c}
               IN  /\ Cardinality(part) = k
                   /\ {r.row_number : r \in part} = 1..k
                   /\ \A r \in part :
                        r.sales_amount = SumAmount({f \in W : f.country = c
                                            /\ f.product_name = r.product_name})
                   /\ \A a \in part : \A b \in part :
                        a.row_number < b.row_number => a.sales_amount >= b.sales_amount
                   /\ got = {strip(r) : r \in {x \in part : x.row_number <= rankN}}
                   /\ Cardinality(got) = (IF k < rankN THEN k ELSE rankN)
                   /\ \A r \in part : strip(r) \notin got =>
                        \A g \in got : g.sales_amount >= r.sales_amount

\* C4 happens: a country with more products than the limit of line 127, a
\* tie across the cut, and another country with fewer products than the limit.
C4_Witness ==
    /\ pc = "ranked"
    /\ rankN = ByCountryLimit
    /\ \E a \in rankTable : \E b \in rankTable :
         /\ a.country = b.country
         /\ a.row_number = rankN /\ b.row_number = rankN + 1
         /\ a.sales_amount = b.sales_amount
    /\ \E c \in {r.country : r \in rankTable} :
         Cardinality({r \in rankTable : r.country = c}) < rankN

\* C5 (as claimed): products() returns one bar series when the checkbox is
\* not checked, and when it is checked one bar series per product name of the
\* result, each with one bar per country in which the product ranks.
C5_OneSeriesPerProduct ==
    lastP.args # None =>
      /\ lastP.raised = ""
      /\ IF by_country(lastP.args[1].boxes)
         THEN /\ \A j \in DOMAIN lastP.figure.data : \A k \in DOMAIN lastP.figure.data :
                   lastP.figure.data[j].name = lastP.figure.data[k].name => j = k
              /\ \A k \in DOMAIN lastP.figure.data :
                   /\ Len(lastP.figure.data[k].x) >= 1
                   /\ Cardinality(Range(lastP.figure.data[k].y)) = Len(lastP.figure.data[k].y)
         ELSE Len(lastP.figure.data) = 1

SingleCountry == Cardinality({f.country : f \in facts}) = 1

\* The figure shown is one series with the same points as every total
\* (checkbox not checked) figure of the same window.
SameAsTotal(v) ==
    /\ Len(lastT.figure.data) = 1
    /\ \A out \in timeline(BoxesOf({}), v, facts) :
         /\ out.raised = ""
         /\ Len(out.figure.data) = 1
         /\ Len(out.figure.data[1].x) = Len(lastT.figure.data[1].x)
         /\ TracePoints(out.figure.data[1]) = TracePoints(lastT.figure.data[1])

\* C6 (as claimed): when all sales are of one country, the by-country
\* timeline of any window is exactly one series, with the points of the total
\* timeline of that window.
C6_SingleCountrySplitIsTotal ==
    (lastT.args # None /\ lastT.raised = "" /\ SingleCountry
        /\ by_country(lastT.args[1].boxes))
    => SameAsTotal(lastT.args[1].time_range)

\* C6 (amended): when all sales are of one country, the by-country timeline
\* of a window that holds a time-series row is exactly one series, with the
\* points of the total timeline of that window; of a window that holds no
\* row it has no series, while the total timeline has one series of no point.
C6_SingleCountrySplitIsTotalWhenRows ==
    (lastT.args # None /\ lastT.raised = "" /\ SingleCountry
        /\ by_country(lastT.args[1].boxes))
    => LET v == lastT.args[1].time_range
       IN  IF \E r \in timeseries_query(facts) : StrictlyInside(r.dt, v)
           THEN SameAsTotal(v)
           ELSE /\ lastT.figure.data = <<>>
                /\ \A out \in timeline(BoxesOf({}), v, facts) :
                     Len(out.figure.data) = 1 /\ out.figure.data[1].x = <<>>

\* C6 happens: one country, the by-country timeline drawn with two points.
C6_Witness ==
    /\ lastT.args # None /\ lastT.raised = "" /\ SingleCountry
    /\ by_country(lastT.args[1].boxes)
    /\ Len(lastT.figure.data) = 1
    /\ Len(lastT.figure.data[1].x) = 2

\* The points of the timeline figure dated in period k.
PointsOf(k) == {id \in PointIds(lastT.figure) : Period(lastT.figure.data[id[1]].x[id[2]]) = k}

PeriodsShown == {Period(lastT.figure.data[id[1]].x[id[2]]) : id \in PointIds(lastT.figure)}

\* C7 (as claimed): for every period of the timeline figure, by country the
\* period has as many points as there are countries with sales in the period;
\* in total it has one point, whose y is the sum of the totals of all
\* countries in the period and whose x is a date label of the period.
C7_PointsPerPeriod ==
    (lastT.args # None /\ lastT.raised = "")
    => LET TS == timeseries_query(facts)
       IN  \A k \in PeriodsShown :
             LET R == {r \in TS : <<r.week, r.year>> = k}
             IN  IF by_country(lastT.args[1].boxes)
                 THEN Cardinality(PointsOf(k))
                        = Cardinality({f.country : f \in {g \in facts : Period(g.dt) = k}})
                 ELSE /\ Cardinality(PointsOf(k)) = 1
                      /\ \A id \in PointsOf(k) :
                           /\ lastT.figure.data[id[1]].y[id[2]] = SumAmount(R)
                           /\ lastT.figure.data[id[1]].x[id[2]] \in {r.dt : r \in R}

\* C7 (amended): for every period of the timeline figure, by country the
\* period has as many points as there are countries whose time-series row of
\* the period is dated strictly inside the window; in total it has one point,
\* whose y is the sum of the totals of those rows and whose x is the date
\* label of one of them.
C7_PointsPerPeriodInWindow ==
    (lastT.args # None /\ lastT.raised = "")
    => LET TS == timeseries_query(facts)
           v  == lastT.args[1].time_range
       IN  \A k \in PeriodsShown :
             LET R == {r \in TS : <<r.week, r.year>> = k /\ StrictlyInside(r.dt, v)}
             IN  IF by_country(lastT.args[1].boxes)
                 THEN Cardinality(PointsOf(k)) = Cardinality({r.country : r \in R})
                 ELSE /\ Cardinality(PointsOf(k)) = 1
                      /\ \A id \in PointsOf(k) :
                           /\ lastT.figure.data[id[1]].y[id[2]] = SumAmount(R)
                           /\ lastT.figure.data[id[1]].x[id[2]] \in {r.dt : r \in R}

\* C7 happens: a total timeline in which one point sums the rows of two
\* countries, both dated inside the window.
C7_Witness ==
    /\ lastT.args # None /\ lastT.raised = ""
    /\ ~by_country(lastT.args[1].boxes)
    /\ \E k \in PeriodsShown :
         Cardinality({r \in timeseries_query(facts) :
                        /\ <<r.week, r.year>> = k
                        /\ StrictlyInside(r.dt, lastT.args[1].time_range)}) = 2

\* The dashboard is not on a page: no request, no call, no figure.
NothingServed ==
    /\ sentT = <<>> /\ sentP = <<>>
    /\ lastT = NoCall /\ lastP = NoCall
    /\ shownT = EmptyFigure /\ shownP = EmptyFigure
    /\ drawnT = None /\ drawnP = None
    /\ sqlLog.timeseries = 0 /\ sqlLog.top_products = 0
    /\ sqlLog.top_products_by_country = 0

\* The slider of the layout spans the earliest and the latest dt of the store.
SliderSpansStore ==
    /\ sliderMin = Some(timestamp(MinDt(facts)))
    /\ sliderMax = Some(timestamp(MaxDt(facts)))
    /\ sliderMin[1] <= sliderValue[1] /\ sliderValue[1] <= sliderValue[2]
    /\ sliderValue[2] <= sliderMax[1]

\* C8 (as claimed): the min/max statement runs exactly once per launch,
\* before the layout and the server; without a store or without a min/max
\* date nothing is served; a served dashboard has its slider bounded by the
\* earliest and the latest dt of the store.
C8_TimerangeOnceOrNoDashboard ==
    /\ sqlLog.timerange <= 1
    /\ pc \in {"serving", "loaded"} =>
         /\ sqlLog.timerange = 1
         /\ dbUp /\ facts # {}
         /\ SliderSpansStore
    /\ pc # "loaded" => NothingServed

\* The executions of the min/max statement by the processes before this one.
Earlier == IF proc = "server" THEN 1 ELSE 0

\* C8 (amended): the min/max statement runs exactly once in each process that
\* executes the module, before that process builds the layout and before it
\* starts the server; the launched process never serves, the child it starts
\* at line 149 does, so the store has executed the statement twice when the
\* dashboard is served; a process without a store or without a min/max date
\* ends before the layout, serves nothing and runs no callback; a served
\* dashboard has its slider bounded by the earliest and the latest dt.
C8_TimerangeOncePerProcess ==
    /\ pc \in {"import", "connected"} => sqlLog.timerange = Earlier
    /\ pc = "crashed" => sqlLog.timerange \in {Earlier, Earlier + 1}
    /\ pc = "timerange" => sqlLog.timerange = Earlier + 1 /\ dbUp
    /\ pc \in {"layout", "serving", "loaded"} =>
         /\ sqlLog.timerange = Earlier + 1
         /\ dbUp /\ facts # {}
         /\ SliderSpansStore
    /\ pc \in {"serving", "loaded"} => proc = "server" /\ sqlLog.timerange = 2
    /\ pc # "loaded" => NothingServed
    /\ (~dbUp \/ facts = {}) => pc \in {"import", "connected", "timerange", "crashed"}

\* C8 happens: the child serves, after the second execution of the statement.
C8_Witness ==
    /\ proc = "server" /\ pc = "serving"
    /\ sqlLog.timerange = 2
    /\ SliderSpansStore

\* C9 (as claimed): once no request is in flight, each graph shows the
\* figure computed from the current values of the two controls.
C9_LatestResultWins ==
    Settled =>
      /\ drawnT = Some(Args(boxes, sliderValue))
      /\ drawnP = Some(Args(boxes, sliderValue))

\* C10: with the slider at its initial value <<MIN_TIME, MAX_TIME>>, the
\* timeline draws no time-series row dated MIN_TIME or MAX_TIME and sums none
\* into a period, and every bar of the products figure is the product's total
\* without the sales of the first and of the last date.
C10_InitialWindowExcludesEnds ==
    /\ (lastT.args # None /\ lastT.raised = ""
           /\ lastT.args[1].time_range = InitialRange)
       => \A id \in PointIds(lastT.figure) :
            LET x == lastT.figure.data[id[1]].x[id[2]]
                y == lastT.figure.data[id[1]].y[id[2]]
                R == {r \in timeseries_query(facts) :
                        /\ <<r.week, r.year>> = Period(x)
                        /\ r.dt # MIN_TIME[1] /\ r.dt # MAX_TIME[1]
                        /\ (by_country(lastT.args[1].boxes)
                               => r.country = lastT.figure.data[id[1]].name /\ r.dt = x)}
            IN  /\ x # MIN_TIME[1] /\ x # MAX_TIME[1]
                /\ y = SumAmount(R)
    /\ (lastP.args # None /\ lastP.raised = ""
           /\ lastP.args[1].time_range = InitialRange)
       => \A id \in PointIds(lastP.figure) :
            LET bar == lastP.figure.data[id[1]]
                split == by_country(lastP.args[1].boxes)
                prod == IF split THEN bar.name ELSE bar.y[id[2]]
                S == {f \in facts :
                        /\ f.product_name = prod
                        /\ f.dt # MIN_TIME[1] /\ f.dt # MAX_TIME[1]
                        /\ (split => f.country = bar.y[id[2]])}
            IN  bar.x[id[2]] = SumAmount(S)

\* C10 happens: both figures drawn from the initial slider value, with a
\* point and a bar, the bar of a product that also sold on the first date.
C10_Witness ==
    /\ lastT.args # None /\ lastT.raised = "" /\ lastT.args[1].time_range = InitialRange
    /\ lastP.args # None /\ lastP.raised = "" /\ lastP.args[1].time_range = InitialRange
    /\ NumPoints(lastT.figure) >= 1
    /\ \E id \in PointIds(lastP.figure) : \E f \in facts :
         /\ f.dt = MIN_TIME[1]
         /\ f.product_name = (IF by_country(lastP.args[1].boxes)
                              THEN lastP.figure.data[id[1]].name
                              ELSE lastP.figure.data[id[1]].y[id[2]])

=============================================================================
